---- MODULE Spec2Model ----
(***************************************************************************)
(* Model of examples/child_endpoints_model/main.py: the ChildEndpointsModel *)
(* entity (the _parent/_id placeholders, SetKey, SetParts, ParentSet,       *)
(* IdSet), the datastore that holds MyParent and MyModel records, and the   *)
(* four API methods of MyApi.                                               *)
(*                                                                         *)
(* Two specifications are defined over the same variables:                  *)
(*   Spec        the API: concurrent requests, each one built from its      *)
(*               message by the alias-property setters and then handed to   *)
(*               its handler; a request takes one step per wait on the      *)
(*               datastore, and the steps of the requests interleave;       *)
(*   EntitySpec  one ChildEndpointsModel entity on which ParentSet and      *)
(*               IdSet, SetKey and SetParts are called, and parent and id  *)
(*               are read, directly and in any order, over a store drawn   *)
(*               from the reachable stores.                                *)
(***************************************************************************)
EXTENDS Integers, Sequences, FiniteSets, TLC

\* ---------------------------------------------------------------- bounds
MaxParentId == 2      \* parent identifiers the store can hand out: 1..MaxParentId
MaxChildId  == 2      \* child identifiers the store can hand out: 1..MaxChildId
MaxCalls    == 3      \* direct method calls on the entity of EntitySpec
NumReq      == 2      \* child requests in flight at the same time

\* Python's None, for the identifiers.
None == 0

ParentIds == 1..MaxParentId
ChildIds  == 1..MaxChildId

\* The request slots: up to NumReq child requests are in flight at the same
\* time, and the steps of any of them (setter calls, datastore reads, handler,
\* response) interleave.
Reqs == 1..NumReq

\* self._key is None until SetKey (or put) sets it.
NoKey == <<>>

\* ndb.Key(parent_model_class, p, cls, i): the pair of its two identifiers.
Key(p, i) == <<p, i>>

VARIABLES
  parents,    \* identifiers of the stored MyParent records
  children,   \* composite keys of the stored MyModel records
  ent,        \* per request slot: the MyModel entity built for the request
  req,        \* per request slot: kind, position, pending setters, outcome
  nInserts    \* number of MyModelInsert requests that succeeded

vars == <<parents, children, ent, req, nInserts>>

\* ---------------------------------------------------------------- entity

\* A fresh entity: cls(**entity_kwargs) with the class defaults _parent = None,
\* _id = None, no key, not from the datastore, no query ancestor.
\* raised, hist and ufk record the exception of the last call, the calls made
\* (setters and direct SetKey/SetParts calls) and the keys UpdateFromKey was
\* called with.
\* The payload properties (attr1, attr2, created, modified_by) take no part in
\* any decision of the code and are left out.
NewEntity ==
  [_parent |-> None, _id |-> None, _key |-> NoKey, from_datastore |-> FALSE,
   ancestor |-> None, raised |-> "none", hist |-> <<>>, ufk |-> <<>>]

\* What a call that waits for its get holds of the store: nothing yet.
NotRead == {}

\* EndpointsModel.UpdateFromKey up to its get: the key is set.
UpdateFromKeyCall(e, key) ==
  [e EXCEPT !._key = key, !.ufk = Append(@, key)]

\* The get of UpdateFromKey returns: if there is a stored entity at the key,
\* the entity is marked as coming from the datastore.
UpdateFromKeyGet(e, kids) ==
  IF e._key \in kids THEN [e EXCEPT !.from_datastore = TRUE] ELSE e

\* EndpointsModel.UpdateFromKey: set the key, get the stored entity at that
\* key; if there is one, mark the entity as coming from the datastore.
UpdateFromKey(e, key, kids) ==
  UpdateFromKeyGet(UpdateFromKeyCall(e, key), kids)

\* SetKey with the guard its header comment describes (both parts present).
SetKeyBothPresent(e, kids) ==
  IF e._parent # None /\ e._id # None
    THEN UpdateFromKey([e EXCEPT !._key = Key(e._parent, e._id)],
                       Key(e._parent, e._id), kids)
    ELSE e

\* SetKey that builds the key from the parent alone.
SetKeyDropsId(e, kids) ==
  IF e._parent # None
    THEN LET key == Key(e._parent, None)
             e1  == [e EXCEPT !._key = key]
         IN  IF e._id # None THEN UpdateFromKey(e1, key, kids) ELSE e1
    ELSE e

\* SetKey that builds a key whether or not the parent is present.
SetKeyAlways(e, kids) ==
  LET key == Key(e._parent, e._id)
      e1  == [e EXCEPT !._key = key]
  IN  IF e._id # None THEN UpdateFromKey(e1, key, kids) ELSE e1

\* ChildEndpointsModel.SetKey
SetKey(e, kids) ==
  IF e._parent # None
    THEN LET key == Key(e._parent, e._id)
             e1  == [e EXCEPT !._key = key]
         IN  IF e._id # None THEN UpdateFromKey(e1, key, kids) ELSE e1
    ELSE e

\* ChildEndpointsModel.SetParts
SetParts(e) ==
  IF e._key # NoKey
    THEN [e EXCEPT !._parent = e._key[1], !._id = e._key[2]]
    ELSE e

\* The lookup of ParentSet without its check.
ParentSetNoCheck(e, value, pars) ==
  [e EXCEPT !._parent = value, !.raised = "none",
            !.hist = Append(@, <<"ParentSet", value>>)]

\* The lookup of ParentSet that checks the parent only while no id is set.
ParentSetCheckIfNoId(e, value, pars) ==
  LET e1 == [e EXCEPT !._parent = value, !.raised = "none",
                      !.hist = Append(@, <<"ParentSet", value>>)]
  IN  IF value \notin pars /\ e._id = None
        THEN [e1 EXCEPT !.raised = "NotFound"]
        ELSE e1

\* ChildEndpointsModel.ParentSet up to the return of its lookup: _parent is
\* assigned first, then the parent is looked up; NotFoundException leaves the
\* assignment in place.
ParentSetLookup(e, value, pars) ==
  LET e1 == [e EXCEPT !._parent = value, !.raised = "none",
                      !.hist = Append(@, <<"ParentSet", value>>)]
  IN  IF value \notin pars
        THEN [e1 EXCEPT !.raised = "NotFound"]
        ELSE e1

\* ParentSet that forgets to scope the query.
ParentSetNoAncestor(e, value) == e

\* The end of ParentSet: the ancestor of the query is the parent key.
ParentSetAncestor(e, value) ==
  [e EXCEPT !.ancestor = value]

\* ChildEndpointsModel.ParentSet, as one call on a store that does not change
\* meanwhile: the lookup, SetKey, the query ancestor.
ParentSet(e, value, pars, kids) ==
  LET e1 == ParentSetLookup(e, value, pars)
  IN  IF e1.raised # "none"
        THEN e1
        ELSE ParentSetAncestor(SetKey(e1, kids), value)

\* IdSet that only records the id.
IdSetNoSetKey(e, value, kids) ==
  [e EXCEPT !._id = value, !.raised = "none",
            !.hist = Append(@, <<"IdSet", value>>)]

\* ChildEndpointsModel.IdSet
IdSet(e, value, kids) ==
  SetKey([e EXCEPT !._id = value, !.raised = "none",
                   !.hist = Append(@, <<"IdSet", value>>)], kids)

\* The getter of the alias property "parent": while _parent is None it calls
\* SetParts, which writes _parent and _id from the key. The result is the
\* value returned and the entity as the read leaves it.
parent(e) ==
  LET e1 == IF e._parent = None THEN SetParts(e) ELSE e
  IN  [value |-> e1._parent, entity |-> e1]

\* The getter of the alias property "id": while _id is None it calls
\* SetParts, which writes _parent and _id from the key.
id(e) ==
  LET e1 == IF e._id = None THEN SetParts(e) ELSE e
  IN  [value |-> e1._id, entity |-> e1]

\* ---------------------------------------------------------------- store

\* The identifier the store assigns next: identifiers are opaque, so the
\* smallest one of ids that is not in use stands for any unused one. The set
\* is empty when the store of the model is full.
AllocateId(ids, used) ==
  {i \in ids \ used : \A j \in ids \ used : i <= j}

\* Keys put() can write the entity at: the entity's key when it is complete,
\* else the key completed with an identifier the store has not used under
\* that ancestor (None as ancestor: an entity without a key is a root entity).
PutKeys(e, kids) ==
  LET anc == IF e._key = NoKey THEN None ELSE e._key[1]
  IN  IF e._key # NoKey /\ e._key[2] # None
        THEN {e._key}
        ELSE {Key(anc, i) :
                i \in AllocateId(ChildIds, {j \in ChildIds : Key(anc, j) \in kids})}

\* The store after put() wrote the record at key k.
Store(kids, k) == kids \cup {k}

\* The query of MyModelList: scoped to query_info.ancestor when it is set.
QueryFetch(anc, kids) ==
  IF anc = None THEN kids ELSE {k \in kids : k[1] = anc}

\* ---------------------------------------------------------------- requests

IdleReq == [kind |-> "idle", pc |-> "idle", pending |-> <<>>,
            outcome |-> "none", result |-> {}]

\* The alias arguments of a request message, in the order they will be set.
AliasArgs(kind, p, i, parentFirst) ==
  IF kind = "update"
    THEN IF parentFirst THEN << <<"parent", p>>, <<"id", i>> >>
                        ELSE << <<"id", i>>, <<"parent", p>> >>
    ELSE << <<"parent", p>> >>

\* A request arrives: the entity is created from the plain fields of the
\* message and the alias arguments wait to be set. Only an update names a
\* child id, so the other kinds fix the unused choices; the order in which
\* the two alias arguments of an update are set is left open.
Receive(r) ==
  /\ req[r].pc = "idle"
  /\ \E kind \in {"insert", "update", "list"}, p \in ParentIds,
        i \in ChildIds, parentFirst \in BOOLEAN :
       /\ kind # "update" => (i = 1 /\ parentFirst)
       /\ ent' = [ent EXCEPT ![r] = NewEntity]
       /\ req' = [req EXCEPT ![r] = [IdleReq EXCEPT !.kind = kind,
                     !.pc = "setters",
                     !.pending = AliasArgs(kind, p, i, parentFirst)]]
  /\ UNCHANGED <<parents, children, nInserts>>

\* The request after its current alias argument is set: the next argument,
\* or the handler.
NextArg(q) ==
  [q EXCEPT !.pending = Tail(@),
            !.pc = IF Tail(q.pending) = <<>> THEN "handler" ELSE "setters"]

\* setattr(entity, name, value) for the next alias argument, up to the return
\* of its first read of the datastore and what follows it without another
\* read; an exception ends the request. ParentSet reads twice when the id is
\* already set: the parent lookup, then the get of UpdateFromKey called by
\* SetKey. The step ends where the second read waits (key set, nothing
\* loaded, ancestor not yet set).
SetAlias(r) ==
  /\ req[r].pc = "setters"
  /\ req[r].pending # <<>>
  /\ LET arg   == Head(req[r].pending)
         e1    == ParentSetLookup(ent[r], arg[2], parents)
         e2    == SetKey(e1, NotRead)
         waits == /\ arg[1] = "parent"
                  /\ e1.raised = "none"
                  /\ e2.ufk # e1.ufk
         e     == IF arg[1] = "id"
                    THEN IdSet(ent[r], arg[2], children)
                    ELSE IF waits
                      THEN e2
                      ELSE ParentSet(ent[r], arg[2], parents, children)
     IN  /\ ent' = [ent EXCEPT ![r] = e]
         /\ req' = [req EXCEPT ![r] =
              IF e.raised # "none"
                THEN [@ EXCEPT !.pc = "done", !.outcome = e.raised,
                               !.pending = <<>>]
                ELSE IF waits THEN [@ EXCEPT !.pc = "get"]
                              ELSE NextArg(@)]
  /\ UNCHANGED <<parents, children, nInserts>>

\* The get of UpdateFromKey that ParentSet waited for returns: the entity is
\* loaded from the store as it is now, and ParentSet ends with the query
\* ancestor.
ParentSetGet(r) ==
  /\ req[r].pc = "get"
  /\ ent' = [ent EXCEPT ![r] =
               ParentSetAncestor(UpdateFromKeyGet(@, children),
                                 Head(req[r].pending)[2])]
  /\ req' = [req EXCEPT ![r] = NextArg(@)]
  /\ UNCHANGED <<parents, children, nInserts>>

\* MyApi.MyParentInsert: the request carries only a name, put() stores the
\* parent under an identifier the store has not used.
MyParentInsert ==
  /\ \E p \in AllocateId(ParentIds, parents) : parents' = parents \cup {p}
  /\ UNCHANGED <<children, ent, req, nInserts>>

\* MyApi.MyModelInsert
MyModelInsert(r) ==
  /\ req[r].pc = "handler"
  /\ req[r].kind = "insert"
  /\ \E k \in PutKeys(ent[r], children) :
       /\ children' = Store(children, k)
       /\ ent' = [ent EXCEPT ![r]._key = k]
  /\ req' = [req EXCEPT ![r].pc = "done", ![r].outcome = "ok"]
  /\ nInserts' = nInserts + 1
  /\ UNCHANGED parents

\* MyApi.MyModelList
MyModelList(r) ==
  /\ req[r].pc = "handler"
  /\ req[r].kind = "list"
  /\ req' = [req EXCEPT ![r].pc = "done", ![r].outcome = "ok",
                        ![r].result = QueryFetch(ent[r].ancestor, children)]
  /\ UNCHANGED <<parents, children, ent, nInserts>>

\* Integers have no attribute "id".
HasIdAttribute(v) == v \notin Int

\* What raising the exception of MyModelUpdate ends with: its message is
\* formatted from my_model.id and my_model.parent.id first, and the two reads
\* go through the getters. The result is the exception and the entity as the
\* reads leave it.
UpdateRejection(e) ==
  LET i == id(e)
      p == parent(i.entity)
  IN  [outcome |-> IF HasIdAttribute(p.value) THEN "BadRequest"
                                              ELSE "AttributeError",
       entity  |-> p.entity]

\* MyModelUpdate without its from_datastore test.
UpdateRejectedNever(e) == FALSE

\* The test of MyModelUpdate: "if not my_model.from_datastore".
UpdateRejected(e) == ~e.from_datastore

\* MyApi.MyModelUpdate
MyModelUpdate(r) ==
  /\ req[r].pc = "handler"
  /\ req[r].kind = "update"
  /\ IF UpdateRejected(ent[r])
       THEN /\ req' = [req EXCEPT ![r].pc = "done",
                                  ![r].outcome = UpdateRejection(ent[r]).outcome]
            /\ ent' = [ent EXCEPT ![r] = UpdateRejection(ent[r]).entity]
            /\ UNCHANGED children
       ELSE /\ \E k \in PutKeys(ent[r], children) :
                 /\ children' = Store(children, k)
                 /\ ent' = [ent EXCEPT ![r]._key = k]
            /\ req' = [req EXCEPT ![r].pc = "done", ![r].outcome = "ok"]
  /\ UNCHANGED <<parents, nInserts>>

\* The entity a handler returned is turned into the response message: a
\* response that carries "id" and "parent" reads them through the getters.
ToMessage(r) ==
  /\ req[r].pc = "done"
  /\ req[r].outcome = "ok"
  /\ req[r].kind \in {"insert", "update"}
  /\ ent' = [ent EXCEPT ![r] = parent(id(@).entity).entity]
  /\ UNCHANGED <<parents, children, req, nInserts>>

\* The response is sent and the slot is free again.
Respond(r) ==
  /\ req[r].pc = "done"
  /\ req' = [req EXCEPT ![r] = IdleReq]
  /\ ent' = [ent EXCEPT ![r] = NewEntity]
  /\ UNCHANGED <<parents, children, nInserts>>

Init ==
  /\ parents = {}
  /\ children = {}
  /\ ent = [r \in Reqs |-> NewEntity]
  /\ req = [r \in Reqs |-> IdleReq]
  /\ nInserts = 0

Next ==
  \/ MyParentInsert
  \/ \E r \in Reqs : Receive(r)
  \/ \E r \in Reqs : SetAlias(r)
  \/ \E r \in Reqs : ParentSetGet(r)
  \/ \E r \in Reqs : MyModelInsert(r)
  \/ \E r \in Reqs : MyModelList(r)
  \/ \E r \in Reqs : MyModelUpdate(r)
  \/ \E r \in Reqs : ToMessage(r)
  \/ \E r \in Reqs : Respond(r)

Spec == Init /\ [][Next]_vars

\* ---------------------------------------------------------------- entity spec

\* The stores the API can reach: identifiers are assigned in order and every
\* child is under a stored parent.
Stores ==
  {<<ps, ks>> \in (SUBSET ParentIds) \X (SUBSET (ParentIds \X ChildIds)) :
      /\ \A p \in ps : \A q \in 1..p : q \in ps
      /\ \A k \in ks : k[1] \in ps /\ \A j \in 1..k[2] : Key(k[1], j) \in ks}

EntityInit ==
  /\ \E s \in Stores :
       /\ parents = s[1]
       /\ children = s[2]
       /\ nInserts = Cardinality(s[2])
  /\ ent = [r \in Reqs |-> NewEntity]
  /\ req = [r \in Reqs |-> IdleReq]

\* entity.parent = value, called directly.
CallParentSet ==
  /\ Len(ent[1].hist) < MaxCalls
  /\ \E value \in ParentIds :
       ent' = [ent EXCEPT ![1] = ParentSet(@, value, parents, children)]
  /\ UNCHANGED <<parents, children, req, nInserts>>

\* entity.id = value, called directly.
CallIdSet ==
  /\ Len(ent[1].hist) < MaxCalls
  /\ \E value \in ChildIds :
       ent' = [ent EXCEPT ![1] = IdSet(@, value, children)]
  /\ UNCHANGED <<parents, children, req, nInserts>>

\* entity.parent, read directly.
CallParentGet ==
  /\ ent' = [ent EXCEPT ![1] = parent(@).entity]
  /\ UNCHANGED <<parents, children, req, nInserts>>

\* entity.id, read directly.
CallIdGet ==
  /\ ent' = [ent EXCEPT ![1] = id(@).entity]
  /\ UNCHANGED <<parents, children, req, nInserts>>

\* entity.SetKey(), called directly.
CallSetKey ==
  /\ Len(ent[1].hist) < MaxCalls
  /\ ent' = [ent EXCEPT ![1] =
               SetKey([@ EXCEPT !.raised = "none",
                                !.hist = Append(@, <<"SetKey", None>>)],
                      children)]
  /\ UNCHANGED <<parents, children, req, nInserts>>

\* entity.SetParts(), called directly.
CallSetParts ==
  /\ Len(ent[1].hist) < MaxCalls
  /\ ent' = [ent EXCEPT ![1] =
               SetParts([@ EXCEPT !.raised = "none",
                                  !.hist = Append(@, <<"SetParts", None>>)])]
  /\ UNCHANGED <<parents, children, req, nInserts>>

EntityNext ==
  \/ CallParentSet
  \/ CallIdSet
  \/ CallParentGet
  \/ CallIdGet
  \/ CallSetKey
  \/ CallSetParts

EntitySpec == EntityInit /\ [][EntityNext]_vars

\* ---------------------------------------------------------------- properties

\* The request of slot r takes a step.
Steps(r) == req'[r] # req[r]

\* The handler of the request of slot r runs.
Handles(r, kind) ==
  req[r].kind = kind /\ req[r].pc = "handler" /\ req'[r].pc = "done"

\* The step sets the alias property "parent" of the entity of slot r.
SetsParent(r) ==
  /\ req[r].pc = "setters"
  /\ req[r].pending # <<>>
  /\ Head(req[r].pending)[1] = "parent"
  /\ Steps(r)

\* C1: setting a Child's parent to an identifier that has no stored Parent
\* fails with not-found, in an insert, an update and a list request, whichever
\* id the request names and whether the id was set before the parent or not.
C1_ParentSetNotFound ==
  [][\A r \in Reqs :
       (SetsParent(r) /\ Head(req[r].pending)[2] \notin parents)
         => /\ req'[r].outcome = "NotFound"
            /\ req'[r].pc = "done"
            /\ ent'[r].raised = "NotFound"]_vars

\* C1 witness: an update whose id was set first was rejected with not-found.
C1_Witness ==
  \E r \in Reqs :
    /\ req[r].kind = "update"
    /\ req[r].outcome = "NotFound"
    /\ ent[r]._id # None
    /\ ent[r]._parent \notin parents

\* C2 (as claimed): an update whose parent exists and whose composite key
\* resolved to no stored record ends with bad-request.
C2_UpdateBadRequest ==
  \A r \in Reqs :
    (/\ req[r].kind = "update"
     /\ req[r].pc = "done"
     /\ ent[r].raised = "none"
     /\ ~ent[r].from_datastore)
      => req[r].outcome = "BadRequest"

\* C3: an insert on an existing Parent that supplies no child id stores one
\* new record, under that Parent, with a store-assigned id that is not None
\* and differs from the id of every Child already stored under the Parent;
\* so the number of Child records is the number of successful inserts.
C3_InsertAssignsFreshId ==
  /\ [](Cardinality(children) = nInserts)
  /\ [][\A r \in Reqs :
          Handles(r, "insert")
            => \E k \in children' :
                 /\ k \notin children
                 /\ k[1] = ent[r]._parent
                 /\ k[1] \in parents
                 /\ k[2] # None
                 /\ children' = children \cup {k}
                 /\ ent'[r]._key = k
                 /\ req'[r].outcome = "ok"]_vars

\* C3 witness: two records stored under one Parent by two inserts.
C3_Witness ==
  /\ nInserts >= 2
  /\ \E r \in Reqs :
       /\ req[r].kind = "insert"
       /\ req[r].outcome = "ok"
       /\ ent[r]._key \in children
       /\ \E k \in children : k # ent[r]._key /\ k[1] = ent[r]._key[1]

\* C4: a request that supplies an existing parent and a child id loads the
\* entity through UpdateFromKey, called once with the composite key
\* (parent, id), and the put that follows writes the record at that same key:
\* the key was stored before, and no record is added.
C4_UpdateLoadsAndOverwrites ==
  /\ [](\A r \in Reqs :
          (req[r].kind = "update" /\ req[r].pc = "handler")
            => /\ ent[r]._parent \in parents
               /\ ent[r]._id # None
               /\ ent[r]._key = Key(ent[r]._parent, ent[r]._id)
               /\ ent[r].ufk = << Key(ent[r]._parent, ent[r]._id) >>
               /\ ent[r].from_datastore => ent[r]._key \in children)
  /\ [][\A r \in Reqs :
          (Handles(r, "update") /\ req'[r].outcome = "ok")
            => /\ ent[r]._key \in children
               /\ children' = children
               /\ ent'[r]._key = ent[r]._key]_vars

\* C4 witness: an update wrote the record of an existing key, with another
\* record stored under the same Parent.
C4_Witness ==
  \E r \in Reqs :
    /\ req[r].kind = "update"
    /\ req[r].outcome = "ok"
    /\ ent[r]._key \in children
    /\ \E k \in children : k # ent[r]._key /\ k[1] = ent[r]._key[1]

\* C5: a list request for an existing Parent p returns only records whose
\* key has ancestor p.
C5_ListScopedToParent ==
  \A r \in Reqs :
    (req[r].kind = "list" /\ req[r].outcome = "ok")
      => /\ ent[r]._parent \in parents
         /\ \A k \in req[r].result : k[1] = ent[r]._parent

\* C5 witness: a list returned records while another Parent had children too.
C5_Witness ==
  \E r \in Reqs :
    /\ req[r].kind = "list"
    /\ req[r].outcome = "ok"
    /\ req[r].result # {}
    /\ \E k \in children : k[1] # ent[r]._parent

\* C7: every stored Child has an ancestor identifier for which a Parent is
\* stored.
C7_ChildrenHaveStoredParent ==
  \A k \in children : k[1] \in parents

\* C7 witness: two insert requests in flight together have both stored their
\* record, under two different Parents.
C7_Witness ==
  \E r1 \in Reqs, r2 \in Reqs :
    /\ r1 # r2
    /\ req[r1].kind = "insert" /\ req[r1].outcome = "ok"
    /\ req[r2].kind = "insert" /\ req[r2].outcome = "ok"
    /\ ent[r1]._key \in children
    /\ ent[r2]._key \in children
    /\ ent[r1]._key[1] # ent[r2]._key[1]

\* C10: only the last, successful step of a request changes the store, so a
\* rejected request leaves the stored Parents and Children as they were, and
\* an update request never adds a Child record.
C10_RejectedLeavesStore ==
  [][\A r \in Reqs :
       Steps(r)
         => /\ (parents' # parents \/ children' # children)
                 => (req'[r].outcome = "ok" /\ req'[r].pc = "done")
            /\ req'[r].outcome \notin {"none", "ok"}
                 => (parents' = parents /\ children' = children)
            /\ req[r].kind = "update"
                 => children' = children]_vars

\* C10 witness: an update naming a Child that is not stored was rejected.
C10_Witness ==
  \E r \in Reqs :
    /\ req[r].kind = "update"
    /\ req[r].pc = "done"
    /\ req[r].outcome \notin {"ok", "NotFound"}
    /\ ent[r]._key \notin children

\* ---- properties of the entity under direct calls (EntitySpec)

\* C6 (as claimed): a key is set only if _parent is not None and passed the
\* existence check, and the key is (_parent, _id).
C6_KeyOnlyForCheckedParent ==
  LET e == ent[1]
  IN  e._key # NoKey
        => /\ e._parent # None
           /\ e._parent \in parents
           /\ e._key = Key(e._parent, e._id)

\* C8 (as claimed): the key is set only if both the parent and the id are
\* present.
C8_KeyOnlyIfBothPresent ==
  LET e == ent[1]
  IN  e._key # NoKey => (e._parent # None /\ e._id # None)

\* C8 (amended): SetKey sets the key only if the parent is present. Called
\* with _parent None it leaves the key unset; called with _parent present it
\* sets the key to (_parent, _id), also when _id is still None.
C8_KeyOnlyIfParentPresent ==
  [][(/\ ent'[1].hist # ent[1].hist
      /\ ent'[1].raised = "none"
      /\ ent'[1].hist[Len(ent'[1].hist)][1] # "SetParts")
       => ent'[1]._key = IF ent'[1]._parent # None
                           THEN Key(ent'[1]._parent, ent'[1]._id)
                           ELSE NoKey]_vars

\* C8 witness: a partial key, set while _id is still None.
C8_Witness ==
  LET e == ent[1]
  IN  e._parent # None /\ e._id = None /\ e._key = Key(e._parent, None)

\* C9: for an existing parent p and an id i, ParentSet(p) then IdSet(i) and
\* IdSet(i) then ParentSet(p) end in the same entity state: key (p, i),
\* _parent p, _id i, query ancestor p, and UpdateFromKey called exactly once,
\* with (p, i).
C9_SettersCommute ==
  LET e == ent[1]
  IN  \A p \in parents, i \in ChildIds :
        e.hist \in { << <<"ParentSet", p>>, <<"IdSet", i>> >>,
                     << <<"IdSet", i>>, <<"ParentSet", p>> >> }
          => /\ e._key = Key(p, i)
             /\ e._parent = p
             /\ e._id = i
             /\ e.ancestor = p
             /\ e.raised = "none"
             /\ e.ufk = << Key(p, i) >>
             /\ e.from_datastore = (Key(p, i) \in children)

\* C9 witness: the parent was set after the id and the stored record loaded.
C9_Witness ==
  LET e == ent[1]
  IN  /\ Len(e.hist) = 2
      /\ e.hist[1][1] = "IdSet"
      /\ e.hist[2][1] = "ParentSet"
      /\ e.from_datastore
      /\ e._key \in children

====
